---- MODULE Spec2Model ----
(***************************************************************************)
(* Model of disease_susceptibility_predictor.py: the scoring function      *)
(* calculate_disease_risk, the users and predictions tables, and the       *)
(* Streamlit session handlers that call them.                              *)
(*                                                                         *)
(* Encodings.  Python str values that the code lower-cases, measures or    *)
(* matches against a pattern are sequences of one-character strings; the   *)
(* other str values are TLA+ strings.  The float fields bmi and hba1c are  *)
(* held in tenths (22.0 is 220, 6.5 is 65), which is the step of their     *)
(* number_input widgets.  Timestamps are values of a clock that ticks      *)
(* once per second, the resolution of SQLite's CURRENT_TIMESTAMP.          *)
(***************************************************************************)
EXTENDS Integers, Sequences, FiniteSets, TLC

VARIABLES
    data,             \* scoring harness: the record passed to calculate_disease_risk
    risks,            \* scoring harness: the returned risks mapping
    recommendations,  \* scoring harness: the returned recommendation list
    hpc,              \* scoring harness: "call" before the call, "return" after
    users,            \* users.db, table users: sequence of rows, row i has id i
    predictions,      \* predictions.db, table predictions: sequence of rows
    now,              \* wall clock in seconds
    logged_in,        \* st.session_state.logged_in, per session
    user_info,        \* st.session_state.user_info, per session
    pc,               \* per session: position of the running handler
    local,            \* per session: local variables of the running handler
    last,             \* the call completed by the most recent step: its session,
                      \* function, arguments, return value and the message shown;
                      \* None when that step completed no call
    scored            \* number of calculate_disease_risk calls made by prediction_page

vars == <<data, risks, recommendations, hpc, users, predictions, now,
          logged_in, user_info, pc, local, last, scored>>

harness_vars == <<data, risks, recommendations, hpc>>

app_vars == <<users, predictions, now, logged_in, user_info, pc, local, last, scored>>

-----------------------------------------------------------------------------
(* Python str operations on character sequences *)

UPPERCASE == <<"A", "B", "C", "D", "E", "F", "G", "H", "I", "J", "K", "L", "M",
               "N", "O", "P", "Q", "R", "S", "T", "U", "V", "W", "X", "Y", "Z">>

LOWERCASE == <<"a", "b", "c", "d", "e", "f", "g", "h", "i", "j", "k", "l", "m",
               "n", "o", "p", "q", "r", "s", "t", "u", "v", "w", "x", "y", "z">>

\* the lower-case letter of each upper-case letter
LOWER_OF == [c \in {UPPERCASE[i] : i \in 1..26} |->
                LOWERCASE[CHOOSE i \in 1..26 : UPPERCASE[i] = c]]

\* one character of str.lower()
lower_char(c) == IF c \in DOMAIN LOWER_OF THEN LOWER_OF[c] ELSE c

\* variant of lower: the text is compared as it was typed
lower_as_typed(s) == s

\* str.lower()
lower(s) == [i \in 1..Len(s) |-> lower_char(s[i])]

\* the Python expression  needle in hay  on two str values
contains(needle, hay) ==
    \E i \in 0..(Len(hay) - Len(needle)) :
        \A j \in 1..Len(needle) : hay[i + j] = needle[j]

\* dict.get(key, default)
get(d, key, default) == IF key \in DOMAIN d THEN d[key] ELSE default

S_male == <<"m", "a", "l", "e">>

S_heart_disease == <<"h", "e", "a", "r", "t", " ", "d", "i", "s", "e", "a", "s", "e">>

S_diabetes == <<"d", "i", "a", "b", "e", "t", "e", "s">>

S_hypertension == <<"h", "y", "p", "e", "r", "t", "e", "n", "s", "i", "o", "n">>

S_stroke == <<"s", "t", "r", "o", "k", "e">>

-----------------------------------------------------------------------------
(* calculate_disease_risk *)

REC_BP == "Monitor blood pressure regularly and consider medication if advised by doctor"

REC_CHOLESTEROL == "Follow a low-cholesterol diet and consider statin therapy"

REC_WEIGHT == "Weight management through diet and exercise"

REC_SMOKING == "Quit smoking immediately - seek professional help if needed"

REC_ENDOCRINOLOGIST == "Immediate consultation with endocrinologist required"

REC_GLUCOSE == "Monitor blood sugar levels and follow diabetic-friendly diet"

REC_ACTIVITY == "Increase physical activity to at least 150 minutes per week"

REC_ALCOHOL == "Reduce alcohol consumption"

REC_MAINTAIN == "Maintain current healthy lifestyle"

REC_CHECKUPS == "Regular health check-ups every 6-12 months"

REC_DIET == "Follow a balanced diet rich in fruits and vegetables"

\* the keys of the risks dict, in insertion order
DiseaseOrder == <<"Cardiovascular Disease", "Type 2 Diabetes", "Hypertension",
                  "Metabolic Syndrome", "Stroke">>

\* variant of clamp: the sum is stored as it is
clamp_unclamped(x) == x

\* min(x, 100)
clamp(x) == IF x < 100 THEN x ELSE 100

\* variant of cv_risk: the numeric comparisons include the threshold
cv_risk_inclusive(d) ==
      (IF d.age >= 45 THEN 20 ELSE 0)
    + (IF lower(d.gender) = S_male THEN 10 ELSE 0)
    + (IF d.blood_pressure_systolic >= 140 \/ d.blood_pressure_diastolic >= 90 THEN 25 ELSE 0)
    + (IF d.cholesterol_total >= 240 THEN 20 ELSE 0)
    + (IF d.cholesterol_hdl <= 40 THEN 15 ELSE 0)
    + (IF d.bmi >= 300 THEN 15 ELSE 0)
    + (IF d.smoking_status \in {"Current smoker", "Heavy smoker"} THEN 30 ELSE 0)
    + (IF contains(S_heart_disease, lower(get(d, "family_history", <<>>))) THEN 20 ELSE 0)

\* the sum accumulated in cv_risk before the clamp
cv_risk(d) ==
      (IF d.age > 45 THEN 20 ELSE 0)
    + (IF lower(d.gender) = S_male THEN 10 ELSE 0)
    + (IF d.blood_pressure_systolic > 140 \/ d.blood_pressure_diastolic > 90 THEN 25 ELSE 0)
    + (IF d.cholesterol_total > 240 THEN 20 ELSE 0)
    + (IF d.cholesterol_hdl < 40 THEN 15 ELSE 0)
    + (IF d.bmi > 300 THEN 15 ELSE 0)
    + (IF d.smoking_status \in {"Current smoker", "Heavy smoker"} THEN 30 ELSE 0)
    + (IF contains(S_heart_disease, lower(get(d, "family_history", <<>>))) THEN 20 ELSE 0)

\* the recommendations appended by the cardiovascular block
cv_recommendations(d) ==
       (IF d.blood_pressure_systolic > 140 \/ d.blood_pressure_diastolic > 90
        THEN <<REC_BP>> ELSE <<>>)
    \o (IF d.cholesterol_total > 240 THEN <<REC_CHOLESTEROL>> ELSE <<>>)
    \o (IF d.bmi > 300 THEN <<REC_WEIGHT>> ELSE <<>>)
    \o (IF d.smoking_status \in {"Current smoker", "Heavy smoker"}
        THEN <<REC_SMOKING>> ELSE <<>>)

\* variant of glucose_branch: two independent if statements
glucose_branch_both(d) ==
    [points |-> (IF d.blood_sugar_fasting > 126 THEN 40 ELSE 0)
              + (IF d.blood_sugar_fasting > 100 THEN 25 ELSE 0),
     recs   |-> (IF d.blood_sugar_fasting > 126 THEN <<REC_ENDOCRINOLOGIST>> ELSE <<>>)
             \o (IF d.blood_sugar_fasting > 100 THEN <<REC_GLUCOSE>> ELSE <<>>)]

\* the if / elif on blood_sugar_fasting: points and recommendation
glucose_branch(d) ==
    IF d.blood_sugar_fasting > 126
    THEN [points |-> 40, recs |-> <<REC_ENDOCRINOLOGIST>>]
    ELSE IF d.blood_sugar_fasting > 100
         THEN [points |-> 25, recs |-> <<REC_GLUCOSE>>]
         ELSE [points |-> 0, recs |-> <<>>]

\* variant of diabetes_risk: a record without hba1c counts as an HbA1c of 7.0
diabetes_risk_default_high(d) ==
      (IF d.age > 45 THEN 15 ELSE 0)
    + (IF d.bmi > 250 THEN 20 ELSE 0)
    + glucose_branch(d).points
    + (IF get(d, "hba1c", 70) > 65 THEN 35 ELSE 0)
    + (IF contains(S_diabetes, lower(get(d, "family_history", <<>>))) THEN 25 ELSE 0)
    + (IF d.exercise_frequency \in {"Never", "Rarely"} THEN 15 ELSE 0)

\* the sum accumulated in diabetes_risk before the clamp
diabetes_risk(d) ==
      (IF d.age > 45 THEN 15 ELSE 0)
    + (IF d.bmi > 250 THEN 20 ELSE 0)
    + glucose_branch(d).points
    + (IF get(d, "hba1c", 0) > 65 THEN 35 ELSE 0)
    + (IF contains(S_diabetes, lower(get(d, "family_history", <<>>))) THEN 25 ELSE 0)
    + (IF d.exercise_frequency \in {"Never", "Rarely"} THEN 15 ELSE 0)

diabetes_recommendations(d) ==
       glucose_branch(d).recs
    \o (IF d.exercise_frequency \in {"Never", "Rarely"} THEN <<REC_ACTIVITY>> ELSE <<>>)

hypertension_risk(d) ==
      (IF d.blood_pressure_systolic > 120 \/ d.blood_pressure_diastolic > 80 THEN 30 ELSE 0)
    + (IF d.age > 50 THEN 20 ELSE 0)
    + (IF d.bmi > 250 THEN 15 ELSE 0)
    + (IF d.alcohol_consumption \in {"Heavy drinker", "Daily"} THEN 20 ELSE 0)
    + (IF contains(S_hypertension, lower(get(d, "family_history", <<>>))) THEN 25 ELSE 0)

hypertension_recommendations(d) ==
    IF d.alcohol_consumption \in {"Heavy drinker", "Daily"} THEN <<REC_ALCOHOL>> ELSE <<>>

\* variant of metabolic_risk: the numeric comparisons include the threshold
metabolic_risk_inclusive(d) ==
      (IF d.bmi >= 300 THEN 25 ELSE 0)
    + (IF d.blood_sugar_fasting >= 100 THEN 20 ELSE 0)
    + (IF d.cholesterol_hdl <= 50 THEN 15 ELSE 0)
    + (IF d.blood_pressure_systolic >= 130 THEN 20 ELSE 0)

\* the sum accumulated in metabolic_risk before the clamp
metabolic_risk(d) ==
      (IF d.bmi > 300 THEN 25 ELSE 0)
    + (IF d.blood_sugar_fasting > 100 THEN 20 ELSE 0)
    + (IF d.cholesterol_hdl < 50 THEN 15 ELSE 0)
    + (IF d.blood_pressure_systolic > 130 THEN 20 ELSE 0)

stroke_risk(d) ==
      (IF d.age > 55 THEN 20 ELSE 0)
    + (IF d.blood_pressure_systolic > 140 THEN 25 ELSE 0)
    + (IF d.smoking_status \in {"Current smoker", "Heavy smoker"} THEN 25 ELSE 0)
    + (IF contains(S_stroke, lower(get(d, "family_history", <<>>))) THEN 30 ELSE 0)

\* variant of general_recommendations: the maintain line is always appended
general_recommendations_always(recs) == recs \o <<REC_MAINTAIN, REC_CHECKUPS, REC_DIET>>

\* the "General recommendations" tail
general_recommendations(recs) ==
    (IF recs = <<>> THEN <<REC_MAINTAIN>> ELSE recs) \o <<REC_CHECKUPS, REC_DIET>>

\* the returned pair (risks, recommendations)
calculate_disease_risk(d) ==
    [risks |->
        ("Cardiovascular Disease" :> clamp(cv_risk(d)))
     @@ ("Type 2 Diabetes" :> clamp(diabetes_risk(d)))
     @@ ("Hypertension" :> clamp(hypertension_risk(d)))
     @@ ("Metabolic Syndrome" :> clamp(metabolic_risk(d)))
     @@ ("Stroke" :> clamp(stroke_risk(d))),
     recommendations |->
        general_recommendations(cv_recommendations(d)
                                \o diabetes_recommendations(d)
                                \o hypertension_recommendations(d))]


-----------------------------------------------------------------------------
(* Input records for the scoring function *)

G_Male == <<"M", "a", "l", "e">>

G_Female == <<"F", "e", "m", "a", "l", "e">>

G_Other == <<"O", "t", "h", "e", "r">>

G_MALE == <<"M", "A", "L", "E">>

\* free-text family histories: empty, each keyword in lower, mixed and upper
\* case, two keywords in one text, and a near miss ("heart-disease")
FamilyHistories ==
    { <<>>,
      <<"h", "e", "a", "r", "t", " ", "d", "i", "s", "e", "a", "s", "e">>,
      <<"H", "e", "a", "r", "t", " ", "D", "i", "s", "e", "a", "s", "e">>,
      <<"s", "t", "r", "o", "k", "e", ",", " ", "d", "i", "a", "b", "e", "t", "e", "s">>,
      <<"H", "Y", "P", "E", "R", "T", "E", "N", "S", "I", "O", "N">>,
      <<"h", "e", "a", "r", "t", "-", "d", "i", "s", "e", "a", "s", "e">>,
      <<"D", "i", "a", "b", "e", "t", "e", "s", ";", " ", "S", "t", "r", "o", "k", "e">> }

\* the default values of the widgets of the prediction form
DefaultRecord ==
    [patient_name |-> "", age |-> 30, gender |-> G_Male, bmi |-> 220,
     smoking_status |-> "Never smoked", alcohol_consumption |-> "Never",
     blood_pressure_systolic |-> 120, blood_pressure_diastolic |-> 80,
     cholesterol_total |-> 200, cholesterol_hdl |-> 50, cholesterol_ldl |-> 100,
     blood_sugar_fasting |-> 90, blood_sugar_random |-> 120, hba1c |-> 55,
     exercise_frequency |-> "Daily", family_history |-> <<>>]

\* age=50, male, 150/70, total cholesterol 200, HDL 45, BMI 22, never smoked
ExampleRecord ==
    [DefaultRecord EXCEPT !.patient_name = "Pat", !.age = 50,
                          !.blood_pressure_systolic = 150,
                          !.blood_pressure_diastolic = 70,
                          !.cholesterol_hdl = 45]

\* every combination of the eight cardiovascular tests, at and next to each threshold
CardiovascularRecords ==
    { [DefaultRecord EXCEPT !.age = a, !.gender = g, !.blood_pressure_systolic = sy,
                            !.blood_pressure_diastolic = di, !.cholesterol_total = ct,
                            !.cholesterol_hdl = hd, !.bmi = b, !.smoking_status = sm,
                            !.family_history = fh] :
        a \in {45, 46}, g \in {G_Male, G_Female}, sy \in {140, 141}, di \in {90, 91},
        ct \in {240, 241}, hd \in {39, 40}, b \in {300, 301},
        sm \in {"Former smoker", "Current smoker", "Heavy smoker"},
        fh \in FamilyHistories }

\* every combination of the six diabetes tests
DiabetesRecords ==
    { [DefaultRecord EXCEPT !.age = a, !.bmi = b, !.blood_sugar_fasting = fg,
                            !.hba1c = h, !.exercise_frequency = ex,
                            !.family_history = fh] :
        a \in {45, 46}, b \in {250, 251}, fg \in {100, 101, 126, 127, 130},
        h \in {65, 66}, ex \in {"Once a week", "Rarely", "Never"},
        fh \in FamilyHistories }

\* every combination of the five hypertension tests
HypertensionRecords ==
    { [DefaultRecord EXCEPT !.blood_pressure_systolic = sy, !.blood_pressure_diastolic = di,
                            !.age = a, !.bmi = b, !.alcohol_consumption = al,
                            !.family_history = fh] :
        sy \in {120, 121}, di \in {80, 81}, a \in {50, 51}, b \in {250, 251},
        al \in {"Weekly", "Daily", "Heavy drinker"}, fh \in FamilyHistories }

\* every combination of the four metabolic syndrome tests
MetabolicRecords ==
    { [DefaultRecord EXCEPT !.bmi = b, !.blood_sugar_fasting = fg,
                            !.cholesterol_hdl = hd, !.blood_pressure_systolic = sy] :
        b \in {300, 301}, fg \in {100, 101}, hd \in {49, 50}, sy \in {130, 131} }

\* every combination of the four stroke tests
StrokeRecords ==
    { [DefaultRecord EXCEPT !.age = a, !.blood_pressure_systolic = sy,
                            !.smoking_status = sm, !.family_history = fh] :
        a \in {55, 56}, sy \in {140, 141},
        sm \in {"Never smoked", "Current smoker", "Heavy smoker"},
        fh \in FamilyHistories }

\* every combination of the tests that append a recommendation
RecommendationRecords ==
    { [DefaultRecord EXCEPT !.blood_pressure_systolic = sy, !.blood_pressure_diastolic = di,
                            !.cholesterol_total = ct, !.bmi = b, !.smoking_status = sm,
                            !.blood_sugar_fasting = fg, !.exercise_frequency = ex,
                            !.alcohol_consumption = al] :
        sy \in {140, 141}, di \in {90, 91}, ct \in {240, 241}, b \in {300, 301},
        sm \in {"Never smoked", "Heavy smoker"}, fg \in {100, 101, 126, 127},
        ex \in {"Daily", "Never"}, al \in {"Occasionally", "Daily"} }

\* a record without the given keys
without(r, keys) == [k \in (DOMAIN r) \ keys |-> r[k]]

\* records that lack the optional keys hba1c and family_history; the third
\* base record has an HbA1c of 7.0 and a family history with two keywords
OptionalRecords ==
    { without(r, ks) :
        r \in {DefaultRecord, ExampleRecord,
               [ExampleRecord EXCEPT !.hba1c = 70,
                    !.family_history = <<"D", "i", "a", "b", "e", "t", "e", "s", ";",
                                         " ", "S", "t", "r", "o", "k", "e">>]},
        ks \in {{"hba1c"}, {"family_history"}, {"hba1c", "family_history"}} }

Records ==
    {DefaultRecord, ExampleRecord, [DefaultRecord EXCEPT !.gender = G_MALE],
     [DefaultRecord EXCEPT !.gender = G_Other]}
    \cup CardiovascularRecords \cup DiabetesRecords \cup HypertensionRecords
    \cup MetabolicRecords \cup StrokeRecords \cup RecommendationRecords
    \cup OptionalRecords

-----------------------------------------------------------------------------
(* Sessions and tables *)

\* two browser sessions
Sessions == {1, 2}

\* Python None, SQL NULL
None == [none |-> TRUE]

InitApp ==
    /\ users = <<>>
    /\ predictions = <<>>
    /\ now = 0
    /\ logged_in = [s \in Sessions |-> FALSE]
    /\ user_info = [s \in Sessions |-> None]
    /\ pc = [s \in Sessions |-> "idle"]
    /\ local = [s \in Sessions |-> None]
    /\ last = None
    /\ scored = 0

-----------------------------------------------------------------------------
(* Scoring harness: one call of calculate_disease_risk on a chosen record *)

InitRisk ==
    /\ data \in Records
    /\ risks = <<>>
    /\ recommendations = <<>>
    /\ hpc = "call"
    /\ InitApp

Calculate ==
    /\ hpc = "call"
    /\ risks' = calculate_disease_risk(data).risks
    /\ recommendations' = calculate_disease_risk(data).recommendations
    /\ hpc' = "return"
    /\ UNCHANGED <<data, app_vars>>

NextRisk == Calculate

SpecRisk == InitRisk /\ [][NextRisk]_vars

-----------------------------------------------------------------------------
(* users.db and the authentication functions *)

MaxUsers == 2

MaxPredictions == 2

MaxClock == 1

S_username == <<"u", "s", "e", "r", "n", "a", "m", "e">>

S_email == <<"e", "m", "a", "i", "l">>

E_demo == <<"d", "e", "m", "o", "@", "e", "x", "a", "m", "p", "l", "e", ".", "c", "o", "m">>

E_al == <<"a", "l", "@", "x", ".", "i", "o">>

E_malformed == <<"a", "l", ".", "x", "@", "i", "o">>

P_demo123 == <<"d", "e", "m", "o", "1", "2", "3">>

P_secret == <<"s", "e", "c", "r", "e", "t">>

P_short == <<"s", "h", "o", "r", "t">>

\* hashlib.sha256(password.encode()).hexdigest(); the digest is kept symbolic,
\* distinct passwords have distinct digests
hash_password(password) == [sha256 |-> password]

\* variant of verify_password: every password is accepted
verify_password_any(password, hashed) == TRUE

verify_password(password, hashed) == hash_password(password) = hashed

\* variant of unique_violations: the email column is not UNIQUE
unique_violations_username_only(table, username, email) ==
    IF \E i \in 1..Len(table) : table[i].username = username THEN {S_username} ELSE {}

\* the UNIQUE columns of table users that an INSERT of (username, email) violates
unique_violations(table, username, email) ==
       (IF \E i \in 1..Len(table) : table[i].username = username THEN {S_username} ELSE {})
    \cup (IF \E i \in 1..Len(table) : table[i].email = email THEN {S_email} ELSE {})

\* str(e) of the sqlite3.IntegrityError raised for a violated UNIQUE column
integrity_error(column) ==
    <<"U", "N", "I", "Q", "U", "E", " ", "c", "o", "n", "s", "t", "r", "a", "i", "n", "t", " ",
      "f", "a", "i", "l", "e", "d", ":", " ", "u", "s", "e", "r", "s", ".">> \o column

\* the except branch of create_user
integrity_error_result(e) ==
    IF contains(S_username, e) THEN <<FALSE, "Username already exists!">>
    ELSE IF contains(S_email, e) THEN <<FALSE, "Email already registered!">>
    ELSE <<FALSE, "Registration failed!">>

\* create_user: the possible outcomes [users, ret] of one call at time t.  When
\* both UNIQUE columns are violated SQLite raises for one of them; which one
\* is not fixed by the code, so either may be reported.
create_user(table, t, username, email, password, full_name, dob, gender) ==
    LET violated == unique_violations(table, username, email) IN
    IF violated = {}
    THEN { [users |-> Append(table,
                        [id |-> Len(table) + 1, username |-> username, email |-> email,
                         password_hash |-> hash_password(password), full_name |-> full_name,
                         date_of_birth |-> dob, gender |-> gender, created_at |-> t,
                         last_login |-> <<>>]),
            ret |-> <<TRUE, "Account created successfully!">>] }
    ELSE { [users |-> table, ret |-> integrity_error_result(integrity_error(c))] :
             c \in violated }

\* cursor.fetchone() of SELECT id, password_hash, full_name, email WHERE username = ?
fetch_user(table, username) ==
    IF \E i \in 1..Len(table) : table[i].username = username
    THEN LET i == CHOOSE i \in 1..Len(table) : table[i].username = username
         IN  [id |-> table[i].id, password_hash |-> table[i].password_hash,
              full_name |-> table[i].full_name, email |-> table[i].email]
    ELSE None

\* re.match(r'^[^@]+@[^@]+\.[^@]+$', email)
valid_email(email) ==
    \E i, j \in 1..Len(email) :
        /\ email[i] = "@" /\ email[j] = "."
        /\ 1 < i /\ i + 1 < j /\ j < Len(email)
        /\ \A k \in 1..Len(email) : email[k] = "@" => k = i

-----------------------------------------------------------------------------
(* predictions.db *)

\* ", ".join / "; ".join
join(sep, parts) ==
    LET RECURSIVE J(_)
        J(n) == IF n = 0 THEN ""
                ELSE IF n = 1 THEN parts[1]
                ELSE J(n - 1) \o sep \o parts[n]
    IN  J(Len(parts))

\* predicted_diseases: "Disease: NN%" for each key of risks in insertion order
predicted_diseases(r) ==
    join(", ", [i \in 1..Len(DiseaseOrder) |->
                   DiseaseOrder[i] \o ": " \o ToString(r[DiseaseOrder[i]]) \o "%"])

\* str(risks)
risks_str(r) ==
    "{" \o join(", ", [i \in 1..Len(DiseaseOrder) |->
                   "'" \o DiseaseOrder[i] \o "': " \o ToString(r[DiseaseOrder[i]])]) \o "}"

\* variant of save_prediction: INSERT OR REPLACE of the row with id 1
save_prediction_replace(table, t, user_id, patient_data, r, recs) ==
    << [id |-> 1, user_id |-> user_id, patient_name |-> patient_data.patient_name,
        age |-> patient_data.age, gender |-> patient_data.gender,
        blood_pressure_systolic |-> patient_data.blood_pressure_systolic,
        blood_pressure_diastolic |-> patient_data.blood_pressure_diastolic,
        cholesterol_total |-> patient_data.cholesterol_total,
        cholesterol_hdl |-> patient_data.cholesterol_hdl,
        cholesterol_ldl |-> patient_data.cholesterol_ldl,
        blood_sugar_fasting |-> patient_data.blood_sugar_fasting,
        blood_sugar_random |-> patient_data.blood_sugar_random,
        hba1c |-> get(patient_data, "hba1c", 0), bmi |-> patient_data.bmi,
        smoking_status |-> patient_data.smoking_status,
        alcohol_consumption |-> patient_data.alcohol_consumption,
        exercise_frequency |-> patient_data.exercise_frequency,
        family_history |-> patient_data.family_history,
        predicted_diseases |-> predicted_diseases(r), risk_scores |-> risks_str(r),
        recommendations |-> join("; ", recs), created_at |-> t] >>

\* save_prediction: the table after the INSERT at time t
save_prediction(table, t, user_id, patient_data, r, recs) ==
    Append(table,
       [id |-> Len(table) + 1, user_id |-> user_id,
        patient_name |-> patient_data.patient_name,
        age |-> patient_data.age, gender |-> patient_data.gender,
        blood_pressure_systolic |-> patient_data.blood_pressure_systolic,
        blood_pressure_diastolic |-> patient_data.blood_pressure_diastolic,
        cholesterol_total |-> patient_data.cholesterol_total,
        cholesterol_hdl |-> patient_data.cholesterol_hdl,
        cholesterol_ldl |-> patient_data.cholesterol_ldl,
        blood_sugar_fasting |-> patient_data.blood_sugar_fasting,
        blood_sugar_random |-> patient_data.blood_sugar_random,
        hba1c |-> get(patient_data, "hba1c", 0), bmi |-> patient_data.bmi,
        smoking_status |-> patient_data.smoking_status,
        alcohol_consumption |-> patient_data.alcohol_consumption,
        exercise_frequency |-> patient_data.exercise_frequency,
        family_history |-> patient_data.family_history,
        predicted_diseases |-> predicted_diseases(r), risk_scores |-> risks_str(r),
        recommendations |-> join("; ", recs), created_at |-> t])

\* get_user_predictions: the possible results of
\*   SELECT * FROM predictions WHERE user_id = ? ORDER BY created_at DESC
\* Rows with equal created_at may come in any order: the statement names no
\* second sort key.
get_user_predictions(table, user_id) ==
    LET own == {i \in 1..Len(table) : table[i].user_id = user_id}
        n   == Cardinality(own)
    IN  { [k \in 1..n |-> table[o[k]]] :
            o \in { f \in [1..n -> own] :
                      /\ \A a, b \in 1..n : f[a] = f[b] => a = b
                      /\ \A a, b \in 1..n :
                            a < b => table[f[a]].created_at >= table[f[b]].created_at } }

\* variant of name_missing: the patient name is not checked
name_missing_never(patient_name) == FALSE

\* the check  if not patient_name
name_missing(patient_name) == patient_name = ""

-----------------------------------------------------------------------------
(* Session handlers *)

\* values typed into the login form
Usernames == {"", "demo", "alice"}

PasswordInputs == {<<>>, P_demo123, P_secret}

\* submitted registration forms <<username, email, password, confirm, full name>>:
\* one for each validation failure, and three that pass validation and
\* collide with each other or with the demo account on username or email
RegistrationInputs ==
    { <<"", E_al, P_secret, P_secret, "Al">>,
      <<"alice", E_al, P_secret, P_demo123, "Al">>,
      <<"alice", E_al, P_short, P_short, "Al">>,
      <<"alice", E_malformed, P_secret, P_secret, "Al">>,
      <<"alice", E_al, P_secret, P_secret, "Al">>,
      <<"demo", E_al, P_secret, P_secret, "Al">>,
      <<"alice", E_demo, P_secret, P_secret, "Al">> }

\* submitted prediction forms: no patient name, the example record, and a
\* record that matches every test
HighRiskRecord ==
    [patient_name |-> "Sam", age |-> 60, gender |-> G_Male, bmi |-> 320,
     smoking_status |-> "Heavy smoker", alcohol_consumption |-> "Daily",
     blood_pressure_systolic |-> 160, blood_pressure_diastolic |-> 95,
     cholesterol_total |-> 260, cholesterol_hdl |-> 35, cholesterol_ldl |-> 150,
     blood_sugar_fasting |-> 130, blood_sugar_random |-> 180, hba1c |-> 70,
     exercise_frequency |-> "Never",
     family_history |-> <<"H", "e", "a", "r", "t", " ", "D", "i", "s", "e", "a", "s", "e">>]

Forms == {DefaultRecord, ExampleRecord, HighRiskRecord}

Init ==
    /\ data = DefaultRecord
    /\ risks = <<>>
    /\ recommendations = <<>>
    /\ hpc = "call"
    /\ InitApp

\* auth_page, "Login" button: the checks and the SELECT of authenticate_user
Login(s, username, password) ==
    /\ pc[s] = "idle" /\ ~ logged_in[s]
    /\ IF username # "" /\ password # <<>>
       THEN /\ pc' = [pc EXCEPT ![s] = "fetched"]
            /\ local' = [local EXCEPT ![s] =
                            [handler |-> "login", username |-> username,
                             password |-> password,
                             user |-> fetch_user(users, username)]]
            /\ last' = None
       ELSE /\ last' = [session |-> s, handler |-> "login",
                        message |-> "Please enter both username and password!"]
            /\ UNCHANGED <<pc, local>>
    /\ UNCHANGED <<harness_vars, users, predictions, now, logged_in, user_info, scored>>

\* auth_page, "Demo Login" button: create_user
DemoLogin(s) ==
    /\ pc[s] = "idle" /\ ~ logged_in[s]
    /\ \E o \in create_user(users, now, "demo", E_demo, P_demo123, "Demo User",
                            "1990-01-01", "Other") :
        /\ o.ret[1] => Len(users) < MaxUsers
        /\ users' = o.users
        /\ pc' = [pc EXCEPT ![s] = "authenticate_user"]
        /\ local' = [local EXCEPT ![s] =
                        [handler |-> "demo", username |-> "demo", password |-> P_demo123,
                         user |-> None]]
        /\ last' = [session |-> s, handler |-> "demo", fn |-> "create_user",
                    username |-> "demo", email |-> E_demo, ret |-> o.ret, message |-> ""]
    /\ UNCHANGED <<harness_vars, predictions, now, logged_in, user_info, scored>>

\* authenticate_user called by Demo Login: the SELECT and fetchone()
authenticate_user_fetch(s) ==
    /\ pc[s] = "authenticate_user"
    /\ pc' = [pc EXCEPT ![s] = "fetched"]
    /\ local' = [local EXCEPT ![s].user = fetch_user(users, local[s].username)]
    /\ last' = None
    /\ UNCHANGED <<harness_vars, users, predictions, now, logged_in, user_info, scored>>

\* authenticate_user after fetchone(): the check, the UPDATE of last_login and
\* the return value, then the caller's branch on success
authenticate_user_return(s) ==
    /\ pc[s] = "fetched"
    /\ pc' = [pc EXCEPT ![s] = "idle"]
    /\ local' = [local EXCEPT ![s] = None]
    /\ LET a == local[s] IN
       IF a.user # None /\ verify_password(a.password, a.user.password_hash)
       THEN LET info == [id |-> a.user.id, username |-> a.username,
                         full_name |-> a.user.full_name, email |-> a.user.email]
            IN  /\ users' = [users EXCEPT ![a.user.id].last_login = <<now>>]
                /\ logged_in' = [logged_in EXCEPT ![s] = TRUE]
                /\ user_info' = [user_info EXCEPT ![s] = info]
                /\ last' = [session |-> s, handler |-> a.handler,
                            fn |-> "authenticate_user", username |-> a.username,
                            password |-> a.password, ret |-> <<TRUE, info>>,
                            message |-> IF a.handler = "login" THEN "Login successful!"
                                        ELSE "Demo login successful!"]
       ELSE /\ last' = [session |-> s, handler |-> a.handler,
                        fn |-> "authenticate_user", username |-> a.username,
                        password |-> a.password, ret |-> <<FALSE, None>>,
                        message |-> IF a.handler = "login"
                                    THEN "Invalid username or password!" ELSE ""]
            /\ UNCHANGED <<users, logged_in, user_info>>
    /\ UNCHANGED <<harness_vars, predictions, now, scored>>

\* the outcome of a registration form rejected before create_user
Rejected(s, text) ==
    /\ last' = [session |-> s, handler |-> "register", message |-> text]
    /\ UNCHANGED users

\* auth_page, "Create Account" form
Register(s, username, email, password, confirm, full_name) ==
    /\ pc[s] = "idle" /\ ~ logged_in[s]
    /\ IF username = "" \/ email = <<>> \/ password = <<>> \/ full_name = ""
       THEN Rejected(s, "Please fill in all required fields!")
       ELSE IF password # confirm
       THEN Rejected(s, "Passwords do not match!")
       ELSE IF Len(password) < 6
       THEN Rejected(s, "Password must be at least 6 characters long!")
       ELSE IF ~ valid_email(email)
       THEN Rejected(s, "Please enter a valid email address!")
       ELSE \E o \in create_user(users, now, username, email, password, full_name,
                                 "1990-01-01", "Male") :
                /\ o.ret[1] => Len(users) < MaxUsers
                /\ users' = o.users
                /\ last' = [session |-> s, handler |-> "register", fn |-> "create_user",
                            username |-> username, email |-> email, ret |-> o.ret,
                            message |-> o.ret[2]]
    /\ UNCHANGED <<harness_vars, predictions, now, logged_in, user_info, pc, local, scored>>

\* variant of Logout: only logged_in is cleared
Logout_keeps_user_info(s) ==
    /\ pc[s] = "idle" /\ logged_in[s]
    /\ logged_in' = [logged_in EXCEPT ![s] = FALSE]
    /\ last' = None
    /\ UNCHANGED <<harness_vars, users, predictions, now, user_info, pc, local, scored>>

\* main_app, "Logout" button
Logout(s) ==
    /\ pc[s] = "idle" /\ logged_in[s]
    /\ logged_in' = [logged_in EXCEPT ![s] = FALSE]
    /\ user_info' = [user_info EXCEPT ![s] = None]
    /\ last' = None
    /\ UNCHANGED <<harness_vars, users, predictions, now, pc, local, scored>>

\* prediction_page, form submitted
prediction_page(s, patient_data) ==
    /\ pc[s] = "idle" /\ logged_in[s]
    /\ IF name_missing(patient_data.patient_name)
       THEN /\ last' = [session |-> s, handler |-> "prediction",
                        patient_data |-> patient_data,
                        message |-> "Please enter patient name!"]
            /\ UNCHANGED <<predictions, scored>>
       ELSE LET result == calculate_disease_risk(patient_data) IN
            /\ Len(predictions) < MaxPredictions
            /\ scored' = scored + 1
            /\ predictions' = save_prediction(predictions, now, user_info[s].id,
                                              patient_data, result.risks,
                                              result.recommendations)
            /\ last' = [session |-> s, handler |-> "prediction",
                        fn |-> "save_prediction", patient_data |-> patient_data,
                        risks |-> result.risks,
                        recommendations |-> result.recommendations,
                        message |-> "Prediction saved to your history!"]
    /\ UNCHANGED <<harness_vars, users, now, logged_in, user_info, pc, local>>

\* history_page
history_page(s) ==
    /\ pc[s] = "idle" /\ logged_in[s]
    /\ \E df \in get_user_predictions(predictions, user_info[s].id) :
          last' = [session |-> s, handler |-> "history", fn |-> "get_user_predictions",
                   user_id |-> user_info[s].id, df |-> df,
                   message |-> IF df = <<>>
                               THEN "No predictions found. Make your first prediction!"
                               ELSE ""]
    /\ UNCHANGED <<harness_vars, users, predictions, now, logged_in, user_info, pc,
                   local, scored>>

\* analytics_page
analytics_page(s) ==
    /\ pc[s] = "idle" /\ logged_in[s]
    /\ \E df \in get_user_predictions(predictions, user_info[s].id) :
          last' = [session |-> s, handler |-> "analytics", fn |-> "get_user_predictions",
                   user_id |-> user_info[s].id, df |-> df,
                   message |-> IF df = <<>>
                               THEN "No data available for analytics. Make some predictions first!"
                               ELSE ""]
    /\ UNCHANGED <<harness_vars, users, predictions, now, logged_in, user_info, pc,
                   local, scored>>

\* one second passes
Tick ==
    /\ now < MaxClock
    /\ now' = now + 1
    /\ UNCHANGED <<harness_vars, users, predictions, logged_in, user_info, pc, local,
                   last, scored>>

\* the account operations
NextAccounts ==
    \/ \E s \in Sessions, u \in Usernames, p \in PasswordInputs : Login(s, u, p)
    \/ \E s \in Sessions : DemoLogin(s)
    \/ \E s \in Sessions : authenticate_user_fetch(s)
    \/ \E s \in Sessions : authenticate_user_return(s)
    \/ \E s \in Sessions, r \in RegistrationInputs :
          Register(s, r[1], r[2], r[3], r[4], r[5])
    \/ \E s \in Sessions : Logout(s)
    \/ Tick

SpecAccounts == Init /\ [][NextAccounts]_vars

\* The users table after Demo Login and Logout in one session and the
\* registration of alice, all within the first second; a state of SpecAccounts.
TwoAccounts ==
    << [id |-> 1, username |-> "demo", email |-> E_demo,
        password_hash |-> hash_password(P_demo123), full_name |-> "Demo User",
        date_of_birth |-> "1990-01-01", gender |-> "Other", created_at |-> 0,
        last_login |-> <<0>>],
       [id |-> 2, username |-> "alice", email |-> E_al,
        password_hash |-> hash_password(P_secret), full_name |-> "Al",
        date_of_birth |-> "1990-01-01", gender |-> "Male", created_at |-> 0,
        last_login |-> <<>>] >>

InitPredictions ==
    /\ data = DefaultRecord
    /\ risks = <<>>
    /\ recommendations = <<>>
    /\ hpc = "call"
    /\ users = TwoAccounts
    /\ predictions = <<>>
    /\ now = 0
    /\ logged_in = [s \in Sessions |-> FALSE]
    /\ user_info = [s \in Sessions |-> None]
    /\ pc = [s \in Sessions |-> "idle"]
    /\ local = [s \in Sessions |-> None]
    /\ last = None
    /\ scored = 0

\* the operations of the two existing accounts
NextPredictions ==
    \/ \E s \in Sessions, u \in Usernames, p \in PasswordInputs : Login(s, u, p)
    \/ \E s \in Sessions : authenticate_user_return(s)
    \/ \E s \in Sessions : Logout(s)
    \/ \E s \in Sessions, f \in Forms : prediction_page(s, f)
    \/ \E s \in Sessions : history_page(s)
    \/ \E s \in Sessions : analytics_page(s)
    \/ Tick

SpecPredictions == InitPredictions /\ [][NextPredictions]_vars

\* prediction forms submitted in SpecSession: no patient name, the example record
SessionForms == {DefaultRecord, ExampleRecord}

\* every handler of both sessions, from the empty database, within one second
NextSession ==
    \/ \E s \in Sessions, u \in Usernames, p \in PasswordInputs : Login(s, u, p)
    \/ \E s \in Sessions : DemoLogin(s)
    \/ \E s \in Sessions : authenticate_user_fetch(s)
    \/ \E s \in Sessions : authenticate_user_return(s)
    \/ \E s \in Sessions, r \in RegistrationInputs :
          Register(s, r[1], r[2], r[3], r[4], r[5])
    \/ \E s \in Sessions : Logout(s)
    \/ \E s \in Sessions, f \in SessionForms : prediction_page(s, f)
    \/ \E s \in Sessions : history_page(s)
    \/ \E s \in Sessions : analytics_page(s)

SpecSession == Init /\ [][NextSession]_vars

-----------------------------------------------------------------------------
(* Properties of calculate_disease_risk, checked under SpecRisk *)

\* C1: every score returned by calculate_disease_risk is an integer in 0..100
\* and the returned mapping has exactly the five disease names as keys.
C1_ScoresInRange ==
    hpc = "return" =>
        /\ DOMAIN risks = {"Cardiovascular Disease", "Type 2 Diabetes", "Hypertension",
                           "Metabolic Syndrome", "Stroke"}
        /\ \A k \in DOMAIN risks : risks[k] \in 0..100

\* a call whose cardiovascular sum exceeds 100
C1_Witness ==
    /\ hpc = "return"
    /\ cv_risk(data) > 100
    /\ risks["Cardiovascular Disease"] = 100
    /\ \E r \in CardiovascularRecords : data = r

C2_Points(test, points) == IF test THEN points ELSE 0

C2_Sum(d) ==
      C2_Points(d.age > 45, 20)
    + C2_Points(lower(d.gender) = S_male, 10)
    + C2_Points(d.blood_pressure_systolic > 140 \/ d.blood_pressure_diastolic > 90, 25)
    + C2_Points(d.cholesterol_total > 240, 20)
    + C2_Points(d.cholesterol_hdl < 40, 15)
    + C2_Points(d.bmi > 300, 15)
    + C2_Points(d.smoking_status \in {"Current smoker", "Heavy smoker"}, 30)
    + C2_Points("family_history" \in DOMAIN d
                /\ contains(S_heart_disease, lower(d.family_history)), 20)

\* every cardiovascular input sits exactly on its threshold
C2_OnThresholds(d) ==
    /\ d.age = 45 /\ d.blood_pressure_systolic = 140 /\ d.blood_pressure_diastolic = 90
    /\ d.cholesterol_total = 240 /\ d.cholesterol_hdl = 40 /\ d.bmi = 300

\* C2: the Cardiovascular Disease score is min(100, sum of the points of the
\* matched tests), the blood-pressure test counts once, a value equal to a
\* threshold adds nothing, and the example record of the specification scores 55.
C2_CardiovascularScore ==
    hpc = "return" =>
        /\ risks["Cardiovascular Disease"] =
              (IF C2_Sum(data) > 100 THEN 100 ELSE C2_Sum(data))
        /\ (data = ExampleRecord => risks["Cardiovascular Disease"] = 55)
        /\ (C2_OnThresholds(data) =>
              risks["Cardiovascular Disease"] =
                  C2_Points(lower(data.gender) = S_male, 10)
                + C2_Points(data.smoking_status \in {"Current smoker", "Heavy smoker"}, 30)
                + C2_Points(contains(S_heart_disease, lower(data.family_history)), 20))

\* the example record has been scored
C2_Witness ==
    /\ hpc = "return"
    /\ data = ExampleRecord
    /\ risks["Cardiovascular Disease"] = 55

\* the points of the five diabetes tests other than fasting glucose
C3_Others(d) ==
      C2_Points(d.age > 45, 15)
    + C2_Points(d.bmi > 250, 20)
    + C2_Points("hba1c" \in DOMAIN d /\ d.hba1c > 65, 35)
    + C2_Points("family_history" \in DOMAIN d
                /\ contains(S_diabetes, lower(d.family_history)), 25)
    + C2_Points(d.exercise_frequency \in {"Never", "Rarely"}, 15)

C3_Glucose(d) ==
    CASE d.blood_sugar_fasting > 126 -> 40
      [] d.blood_sugar_fasting > 100 /\ d.blood_sugar_fasting <= 126 -> 25
      [] d.blood_sugar_fasting <= 100 -> 0

C3_Has(recs, text) == \E i \in 1..Len(recs) : recs[i] = text

\* C3: fasting glucose above 126 contributes exactly 40 and the endocrinologist
\* recommendation, in (100, 126] exactly 25 and the monitor-glucose
\* recommendation, at most 100 nothing; the two never combine.
C3_GlucoseBranchesExclusive ==
    hpc = "return" =>
        /\ risks["Type 2 Diabetes"] =
              (IF C3_Others(data) + C3_Glucose(data) > 100 THEN 100
               ELSE C3_Others(data) + C3_Glucose(data))
        /\ C3_Has(recommendations, REC_ENDOCRINOLOGIST) <=> data.blood_sugar_fasting > 126
        /\ C3_Has(recommendations, REC_GLUCOSE) <=>
              (data.blood_sugar_fasting > 100 /\ data.blood_sugar_fasting <= 126)
        /\ ~ (C3_Has(recommendations, REC_ENDOCRINOLOGIST)
              /\ C3_Has(recommendations, REC_GLUCOSE))

\* fasting glucose 130 with no other diabetes test matched scores 40
C3_Witness ==
    /\ hpc = "return"
    /\ data.blood_sugar_fasting = 130
    /\ C3_Others(data) = 0
    /\ risks["Type 2 Diabetes"] = 40
    /\ C3_Has(recommendations, REC_ENDOCRINOLOGIST)

\* the triggered recommendations in the fixed order
C4_Triggered(d) ==
    LET bp   == d.blood_pressure_systolic > 140 \/ d.blood_pressure_diastolic > 90
        all  == << <<bp, REC_BP>>,
                   <<d.cholesterol_total > 240, REC_CHOLESTEROL>>,
                   <<d.bmi > 300, REC_WEIGHT>>,
                   <<d.smoking_status \in {"Current smoker", "Heavy smoker"}, REC_SMOKING>>,
                   <<d.blood_sugar_fasting > 126, REC_ENDOCRINOLOGIST>>,
                   <<d.blood_sugar_fasting > 100 /\ d.blood_sugar_fasting <= 126, REC_GLUCOSE>>,
                   <<d.exercise_frequency \in {"Never", "Rarely"}, REC_ACTIVITY>>,
                   <<d.alcohol_consumption \in {"Heavy drinker", "Daily"}, REC_ALCOHOL>> >>
        on(p) == p[1]
        kept == SelectSeq(all, on)
    IN  [i \in 1..Len(kept) |-> kept[i][2]]

\* C4: the recommendation list is the triggered recommendations in the fixed
\* order, or the single maintain line exactly when none was triggered,
\* followed by the two closing lines; no text appears twice.
C4_RecommendationList ==
    hpc = "return" =>
        LET n == Len(recommendations) IN
        /\ n >= 3
        /\ recommendations[n - 1] = REC_CHECKUPS
        /\ recommendations[n] = REC_DIET
        /\ SubSeq(recommendations, 1, n - 2) =
              (IF Len(C4_Triggered(data)) = 0 THEN <<REC_MAINTAIN>> ELSE C4_Triggered(data))
        /\ C3_Has(recommendations, REC_MAINTAIN) <=> Len(C4_Triggered(data)) = 0
        /\ \A i, j \in 1..n : recommendations[i] = recommendations[j] => i = j

\* a call that triggered all seven recommendation positions
C4_Witness ==
    /\ hpc = "return"
    /\ Len(C4_Triggered(data)) = 7
    /\ Len(recommendations) = 9

\* a call that triggered none
C4_WitnessNone ==
    /\ hpc = "return"
    /\ Len(C4_Triggered(data)) = 0
    /\ recommendations = <<REC_MAINTAIN, REC_CHECKUPS, REC_DIET>>

\* the record d with the key set to the value
C11_With(d, key, value) ==
    [k \in (DOMAIN d) \cup {key} |-> IF k = key THEN value ELSE d[k]]

\* the pair returned for the record d
C11_Returned(d) ==
    /\ risks = calculate_disease_risk(d).risks
    /\ recommendations = calculate_disease_risk(d).recommendations

\* C11: calculate_disease_risk returns on a record that lacks the optional
\* fields: without hba1c the scores and recommendations are those of the same
\* record with hba1c = 0 (no HbA1c points in the diabetes score), and without
\* family_history they are those of the same record with family_history = ""
\* (no family-history points in any score).
C11_OptionalFields ==
    hpc = "return" =>
        /\ DOMAIN risks = {DiseaseOrder[i] : i \in 1..5}
        /\ "hba1c" \notin DOMAIN data =>
              /\ C11_Returned(C11_With(data, "hba1c", 0))
              /\ \A h \in {0, 55, 65} : C11_Returned(C11_With(data, "hba1c", h))
        /\ "family_history" \notin DOMAIN data =>
              /\ C11_Returned(C11_With(data, "family_history", <<>>))
              /\ risks["Cardiovascular Disease"] = clamp(C2_Sum(data))
              /\ risks["Type 2 Diabetes"] = clamp(C3_Others(data) + C3_Glucose(data))
              /\ \A fh \in FamilyHistories :
                    LET with == calculate_disease_risk(C11_With(data, "family_history", fh))
                    IN  \A k \in DOMAIN risks : risks[k] <= with.risks[k]

\* the call returned on a record that has neither hba1c nor family_history:
\* age 50 and systolic 150 score 15 for diabetes and 25 for stroke
C11_Witness ==
    /\ hpc = "return"
    /\ "hba1c" \notin DOMAIN data
    /\ "family_history" \notin DOMAIN data
    /\ data.patient_name = "Pat"
    /\ risks["Type 2 Diabetes"] = 15
    /\ risks["Stroke"] = 25

\* the family history of d contains the keyword, in any letter case
C12_FamilyHistory(d, keyword) ==
    /\ "family_history" \in DOMAIN d
    /\ \E i \in 1..Len(d.family_history) :
          /\ i + Len(keyword) - 1 <= Len(d.family_history)
          /\ lower(SubSeq(d.family_history, i, i + Len(keyword) - 1)) = keyword

C12_HypertensionSum(d) ==
      C2_Points(d.blood_pressure_systolic > 120 \/ d.blood_pressure_diastolic > 80, 30)
    + C2_Points(d.age > 50, 20)
    + C2_Points(d.bmi > 250, 15)
    + C2_Points(d.alcohol_consumption = "Heavy drinker"
                \/ d.alcohol_consumption = "Daily", 20)
    + C2_Points(C12_FamilyHistory(d, S_hypertension), 25)

C12_MetabolicSum(d) ==
      C2_Points(d.bmi > 300, 25)
    + C2_Points(d.blood_sugar_fasting > 100, 20)
    + C2_Points(d.cholesterol_hdl < 50, 15)
    + C2_Points(d.blood_pressure_systolic > 130, 20)

C12_StrokeSum(d) ==
      C2_Points(d.age > 55, 20)
    + C2_Points(d.blood_pressure_systolic > 140, 25)
    + C2_Points(d.smoking_status = "Current smoker"
                \/ d.smoking_status = "Heavy smoker", 25)
    + C2_Points(C12_FamilyHistory(d, S_stroke), 30)

C12_Min100(x) == IF x > 100 THEN 100 ELSE x

\* the fields named by the table of each of the three diseases
C12_Fields ==
    [Hypertension |-> {"blood_pressure_systolic", "blood_pressure_diastolic", "age",
                       "bmi", "alcohol_consumption", "family_history"},
     Metabolic    |-> {"bmi", "blood_sugar_fasting", "cholesterol_hdl",
                       "blood_pressure_systolic"},
     Stroke       |-> {"age", "blood_pressure_systolic", "smoking_status",
                       "family_history"}]

\* other values of each field: two for each, on both sides of every threshold
C12_OtherValues ==
    [patient_name |-> {"", "Sam"}, age |-> {30, 60}, gender |-> {G_Female, G_Male},
     bmi |-> {220, 320}, smoking_status |-> {"Never smoked", "Heavy smoker"},
     alcohol_consumption |-> {"Never", "Heavy drinker"},
     blood_pressure_systolic |-> {110, 160}, blood_pressure_diastolic |-> {70, 95},
     cholesterol_total |-> {180, 260}, cholesterol_hdl |-> {35, 60},
     cholesterol_ldl |-> {90, 150}, blood_sugar_fasting |-> {90, 130},
     blood_sugar_random |-> {110, 180}, hba1c |-> {55, 70},
     exercise_frequency |-> {"Daily", "Never"},
     family_history |-> {<<>>, <<"s", "t", "r", "o", "k", "e", " ", "H", "y", "p", "e",
                                 "r", "t", "e", "n", "s", "i", "o", "n">>}]

\* the score of the disease is the same for d and for every record that
\* differs from d in one field outside the given set
C12_DependsOnlyOn(d, disease, fields) ==
    \A k \in (DOMAIN C12_OtherValues) \ fields :
        \A v \in C12_OtherValues[k] :
            calculate_disease_risk(C11_With(d, k, v)).risks[disease] = risks[disease]

\* C12: the Hypertension, Metabolic Syndrome and Stroke scores each equal
\* min(100, sum of the points of the matched tests of their own table), and
\* each depends only on the fields its table names.
C12_ThreeScores ==
    hpc = "return" =>
        /\ risks["Hypertension"] = C12_Min100(C12_HypertensionSum(data))
        /\ risks["Metabolic Syndrome"] = C12_Min100(C12_MetabolicSum(data))
        /\ risks["Stroke"] = C12_Min100(C12_StrokeSum(data))
        /\ C12_DependsOnlyOn(data, "Hypertension", C12_Fields.Hypertension)
        /\ C12_DependsOnlyOn(data, "Metabolic Syndrome", C12_Fields.Metabolic)
        /\ C12_DependsOnlyOn(data, "Stroke", C12_Fields.Stroke)

\* all five hypertension tests matched: the sum 110 is stored as 100
C12_Witness ==
    /\ hpc = "return"
    /\ C12_HypertensionSum(data) = 110
    /\ risks["Hypertension"] = 100
    /\ risks["Metabolic Syndrome"] = C12_MetabolicSum(data)
    /\ risks["Stroke"] = C12_StrokeSum(data)

\* all four metabolic syndrome tests matched
C12_WitnessMetabolic ==
    /\ hpc = "return"
    /\ C12_MetabolicSum(data) = 80
    /\ risks["Metabolic Syndrome"] = 80

\* all four stroke tests matched
C12_WitnessStroke ==
    /\ hpc = "return"
    /\ C12_StrokeSum(data) = 100
    /\ risks["Stroke"] = 100

\* a and b are the same letter in either case, or the same character
C13_SameLetter(a, b) ==
    a = b \/ \E i \in 1..26 : {a, b} = {UPPERCASE[i], LOWERCASE[i]}

\* the text contains the keyword, letter case ignored
C13_Contains(text, keyword) ==
    \E i \in 0..(Len(text) - Len(keyword)) :
        \A j \in 1..Len(keyword) : C13_SameLetter(text[i + j], keyword[j])

\* the character c in the other letter case
C13_Swap(c) ==
    IF \E i \in 1..26 : UPPERCASE[i] = c
    THEN LOWERCASE[CHOOSE i \in 1..26 : UPPERCASE[i] = c]
    ELSE IF \E i \in 1..26 : LOWERCASE[i] = c
         THEN UPPERCASE[CHOOSE i \in 1..26 : LOWERCASE[i] = c]
         ELSE c

C13_IsUpper(c) == \E i \in 1..26 : UPPERCASE[i] = c

\* the text in upper case, in lower case, with every letter swapped, and with
\* the letters at odd or at even positions swapped
C13_CaseVariants(text) ==
    { [i \in 1..Len(text) |-> IF C13_IsUpper(text[i]) THEN text[i] ELSE C13_Swap(text[i])],
      [i \in 1..Len(text) |-> IF C13_IsUpper(text[i]) THEN C13_Swap(text[i]) ELSE text[i]],
      [i \in 1..Len(text) |-> C13_Swap(text[i])],
      [i \in 1..Len(text) |-> IF i % 2 = 1 THEN C13_Swap(text[i]) ELSE text[i]],
      [i \in 1..Len(text) |-> IF i % 2 = 0 THEN C13_Swap(text[i]) ELSE text[i]] }

\* the record d with an empty family history
C13_NoHistory(d) == C11_With(d, "family_history", <<>>)

\* the score is min(100, sum without family history + bonus) when the text
\* contains the keyword, and min(100, sum without family history) otherwise
C13_Bonus(score, sum, keyword, bonus) ==
    score = C12_Min100(sum + C2_Points(C13_Contains(data.family_history, keyword), bonus))

\* C13: family-history matching is a case-insensitive substring test: a
\* change of the letter case of the family_history text changes none of the
\* five scores, and a text that contains "heart disease", "diabetes",
\* "hypertension" or "stroke" in any letter case adds 20, 25, 25 or 30 to the
\* sum of the keyword's disease.
C13_CaseInsensitive ==
    (hpc = "return" /\ "family_history" \in DOMAIN data) =>
        /\ \A text \in C13_CaseVariants(data.family_history) :
              calculate_disease_risk(C11_With(data, "family_history", text)).risks = risks
        /\ C13_Bonus(risks["Cardiovascular Disease"], C2_Sum(C13_NoHistory(data)),
                     S_heart_disease, 20)
        /\ C13_Bonus(risks["Type 2 Diabetes"],
                     C3_Others(C13_NoHistory(data)) + C3_Glucose(data), S_diabetes, 25)
        /\ C13_Bonus(risks["Hypertension"], C12_HypertensionSum(C13_NoHistory(data)),
                     S_hypertension, 25)
        /\ C13_Bonus(risks["Stroke"], C12_StrokeSum(C13_NoHistory(data)), S_stroke, 30)

\* "HYPERTENSION" typed in upper case with no other hypertension test matched
C13_Witness ==
    /\ hpc = "return"
    /\ "family_history" \in DOMAIN data
    /\ data.family_history = [i \in 1..Len(S_hypertension) |-> C13_Swap(S_hypertension[i])]
    /\ C12_HypertensionSum(C13_NoHistory(data)) = 0
    /\ risks["Hypertension"] = 25

\* "Diabetes; Stroke" typed in mixed case scores both bonuses
C13_WitnessMixed ==
    /\ hpc = "return"
    /\ "family_history" \in DOMAIN data
    /\ data.family_history # lower(data.family_history)
    /\ C3_Others(C13_NoHistory(data)) + C3_Glucose(data) = 0
    /\ risks["Type 2 Diabetes"] = 25
    /\ risks["Stroke"] = C12_Min100(C12_StrokeSum(C13_NoHistory(data)) + 30)

-----------------------------------------------------------------------------
(* Properties of the account operations, checked under SpecAccounts *)

\* the step completed a call of fn; last' then describes that call
Completed(fn) ==
    /\ now' = now
    /\ "fn" \in DOMAIN last'
    /\ last'.fn = fn

\* the initial state of SpecPredictions is a state of SpecAccounts
TwoAccountsReached ==
    /\ users = TwoAccounts /\ predictions = <<>> /\ now = 0 /\ last = None /\ scored = 0
    /\ \A s \in Sessions : ~ logged_in[s] /\ user_info[s] = None /\ pc[s] = "idle"
                           /\ local[s] = None

\* C5: no two accounts in the users table share a username or an email.
C5_UniqueAccounts ==
    \A i, j \in 1..Len(users) :
        (users[i].username = users[j].username \/ users[i].email = users[j].email)
            => i = j

\* two accounts are stored and the last create_user call was refused
C5_Witness ==
    /\ Len(users) = 2
    /\ "fn" \in DOMAIN last /\ last.fn = "create_user"
    /\ ~ last.ret[1]

\* C6: create_user with an existing username returns (False, "Username already
\* exists!"), with a new username and an existing email (False, "Email already
\* registered!"), both leaving the accounts unchanged; with both unused it
\* succeeds and adds exactly one account.
C6_CreateUserOutcome ==
    [][Completed("create_user") =>
        LET c == last'
            username_exists == \E i \in 1..Len(users) : users[i].username = c.username
            email_exists    == \E i \in 1..Len(users) : users[i].email = c.email
        IN  /\ username_exists =>
                 c.ret = <<FALSE, "Username already exists!">> /\ users' = users
            /\ (~ username_exists /\ email_exists) =>
                 c.ret = <<FALSE, "Email already registered!">> /\ users' = users
            /\ (~ username_exists /\ ~ email_exists) =>
                 /\ c.ret[1]
                 /\ Len(users') = Len(users) + 1
                 /\ SubSeq(users', 1, Len(users)) = users
                 /\ users'[Len(users')].username = c.username
                 /\ users'[Len(users')].email = c.email]_vars

\* C7: authenticate_user succeeds, returning the account's identity, exactly
\* when the row selected for the username exists and stores the hash of the
\* password; every failure returns (False, None) and changes no account; a
\* success changes only last_login of the matched account.
C7_Authenticate ==
    [][\A s \in Sessions :
        /\ (pc[s] # "fetched" /\ pc'[s] = "fetched") =>
              LET a == local'[s]
                  found == {i \in 1..Len(users) : users[i].username = a.username}
              IN  /\ a.user = None <=> found = {}
                  /\ \A i \in found :
                        /\ a.user.id = i
                        /\ a.user.password_hash = users[i].password_hash
                        /\ a.user.full_name = users[i].full_name
                        /\ a.user.email = users[i].email
        /\ (pc[s] = "fetched" /\ pc'[s] # "fetched") =>
              LET a == local[s]
                  c == last'
                  ok == /\ a.user # None
                        /\ a.user.password_hash = hash_password(a.password)
              IN  /\ Completed("authenticate_user")
                  /\ c.session = s /\ c.username = a.username /\ c.password = a.password
                  /\ c.ret[1] <=> ok
                  /\ ~ ok => c.ret = <<FALSE, None>> /\ users' = users
                  /\ ok =>
                       /\ c.ret[2] = [id |-> a.user.id, username |-> a.username,
                                      full_name |-> a.user.full_name,
                                      email |-> a.user.email]
                       /\ users[a.user.id].username = a.username
                       /\ Len(users') = Len(users)
                       /\ \A i \in 1..Len(users) :
                             IF i = a.user.id
                             THEN /\ users'[i].last_login = <<now>>
                                  /\ [users'[i] EXCEPT !.last_login = <<>>] =
                                     [users[i] EXCEPT !.last_login = <<>>]
                             ELSE users'[i] = users[i]]_vars

\* a login with a wrong password for an existing account has just failed, and
\* an earlier login of some account has succeeded
C7_Witness ==
    /\ "fn" \in DOMAIN last /\ last.fn = "authenticate_user"
    /\ last.ret = <<FALSE, None>>
    /\ \E i \in 1..Len(users) :
          /\ users[i].username = last.username
          /\ users[i].password_hash # hash_password(last.password)
    /\ \E i \in 1..Len(users) : users[i].last_login # <<>>

\* a login with an unknown username has just failed
C7_WitnessUnknown ==
    /\ "fn" \in DOMAIN last /\ last.fn = "authenticate_user"
    /\ last.ret = <<FALSE, None>>
    /\ \A i \in 1..Len(users) : users[i].username # last.username

\* the step ends a press of Demo Login in session s
C15_DemoLoginEnds(s) ==
    /\ Completed("authenticate_user")
    /\ last'.handler = "demo" /\ last'.session = s
    /\ pc[s] = "fetched" /\ pc'[s] = "idle"

\* at most one account has the username "demo"
C15_OneDemoAccount ==
    Cardinality({i \in 1..Len(users) : users[i].username = "demo"}) <= 1

\* C15: a press of Demo Login in a logged-out session always ends with the
\* session logged in as the account whose username is "demo", whatever
\* registrations and presses of Demo Login preceded it, and repeated presses
\* never create a second demo account.
C15_DemoLoginSucceeds ==
    /\ [] C15_OneDemoAccount
    /\ [][\A s \in Sessions :
            C15_DemoLoginEnds(s) =>
                /\ logged_in'[s]
                /\ user_info'[s] # None
                /\ user_info'[s].username = "demo"
                /\ \E i \in 1..Len(users') :
                      users'[i].username = "demo" /\ users'[i].id = user_info'[s].id]_vars

\* a press of Demo Login has ended with the session still logged out while
\* the username "demo" belongs to an account with another password
C15_DemoNameTaken ==
    /\ last # None /\ last.handler = "demo" /\ "fn" \in DOMAIN last
    /\ last.fn = "authenticate_user" /\ last.ret = <<FALSE, None>>
    /\ ~ logged_in[last.session]
    /\ \E i \in 1..Len(users) :
          /\ users[i].username = "demo"
          /\ users[i].password_hash # hash_password(P_demo123)

\* a press of Demo Login has ended with the session still logged out while
\* demo@example.com belongs to an account with another username
C15_DemoEmailTaken ==
    /\ last # None /\ last.handler = "demo" /\ "fn" \in DOMAIN last
    /\ last.fn = "authenticate_user" /\ last.ret = <<FALSE, None>>
    /\ ~ logged_in[last.session]
    /\ \E i \in 1..Len(users) : users[i].email = E_demo /\ users[i].username # "demo"
    /\ \A i \in 1..Len(users) : users[i].username # "demo"

-----------------------------------------------------------------------------
(* Properties of the prediction operations, checked under SpecPredictions *)

\* C8: get_user_predictions returns exactly the rows of the account, a row
\* submitted later before a row submitted earlier, also when two rows carry
\* the same created_at.
C8_NewestFirst ==
    [][Completed("get_user_predictions") =>
        LET df  == last'.df
            own == {i \in 1..Len(predictions) : predictions[i].user_id = last'.user_id}
        IN  /\ Len(df) = Cardinality(own)
            /\ \A i \in own : \E k \in 1..Len(df) : df[k] = predictions[i]
            /\ \A k \in 1..Len(df) : df[k].id \in own
            /\ \A a, b \in 1..Len(df) : a < b => df[a].id > df[b].id]_vars

\* C9: the predictions table is append-only, a completed submission adds
\* exactly one row, and that row carries the id of the account logged in to
\* the submitting session.
C9_AppendOnly ==
    [][/\ Len(predictions') >= Len(predictions)
       /\ \A i \in 1..Len(predictions) : predictions'[i] = predictions[i]
       /\ IF Completed("save_prediction")
          THEN LET s == last'.session IN
               /\ Len(predictions') = Len(predictions) + 1
               /\ logged_in[s]
               /\ predictions'[Len(predictions')].user_id = user_info[s].id
               /\ users[user_info[s].id].username = user_info[s].username
          ELSE predictions' = predictions]_vars

\* two rows of two different accounts are stored
C9_Witness ==
    /\ Len(predictions) = 2
    /\ predictions[1].user_id # predictions[2].user_id
    /\ "fn" \in DOMAIN last /\ last.fn = "save_prediction"

\* the submitted record held by a row of the predictions table
C10_Record(row) ==
    [k \in DOMAIN DefaultRecord |-> row[k]]

\* the row has a patient name and holds the results of its own record
C10_RowHoldsResults(row) ==
    LET result == calculate_disease_risk(C10_Record(row)) IN
    /\ row.patient_name # ""
    /\ row.risk_scores = risks_str(result.risks)
    /\ row.predicted_diseases = predicted_diseases(result.risks)
    /\ row.recommendations = join("; ", result.recommendations)
    /\ row.patient_name = "Pat" =>
         /\ row.predicted_diseases =
               "Cardiovascular Disease: 55%, Type 2 Diabetes: 15%, "
               \o "Hypertension: 30%, Metabolic Syndrome: 35%, Stroke: 25%"
         /\ row.recommendations = REC_BP \o "; " \o REC_CHECKUPS \o "; " \o REC_DIET

\* C10: a form submitted with an empty patient name is rejected with the
\* validation message, without a call of calculate_disease_risk and without
\* a new row; every stored row has a non-empty patient name and holds the
\* scores and recommendations of calculate_disease_risk for its own record
\* (a row is examined by the step that writes it and by every step that
\* changes it; the table starts empty).
C10_EmptyNameRejected ==
    [][/\ (/\ now' = now
           /\ "patient_data" \in DOMAIN last'
           /\ last'.patient_data.patient_name = "")
          => /\ last'.message = "Please enter patient name!"
             /\ predictions' = predictions
             /\ scored' = scored
       /\ scored' = Len(predictions')
       /\ \A i \in 1..Len(predictions') :
             (i <= Len(predictions) /\ predictions'[i] = predictions[i])
             \/ C10_RowHoldsResults(predictions'[i])]_vars

\* a form without a patient name has just been rejected while a row is stored
C10_Witness ==
    /\ "patient_data" \in DOMAIN last
    /\ last.patient_data.patient_name = ""
    /\ last.message = "Please enter patient name!"
    /\ Len(predictions) >= 1

-----------------------------------------------------------------------------
(* Properties of a session, checked under SpecSession *)

\* user_info of session s holds the identity of a stored account
C14_Identity(s) ==
    /\ user_info[s] # None
    /\ \E i \in 1..Len(users) :
          /\ users[i].id = user_info[s].id
          /\ users[i].username = user_info[s].username
          /\ users[i].full_name = user_info[s].full_name
          /\ users[i].email = user_info[s].email

\* logged_in is true exactly when user_info holds a stored account's identity
C14_LoggedInIffIdentity ==
    \A s \in Sessions :
        /\ logged_in[s] <=> C14_Identity(s)
        /\ ~ logged_in[s] => user_info[s] = None

\* the step is a run of the prediction, history or analytics page
C14_PageRun ==
    /\ "handler" \in DOMAIN last'
    /\ last'.handler \in {"prediction", "history", "analytics"}
    /\ last' # last \/ predictions' # predictions

\* a page runs, and a row is saved, only in a session that is logged in, for
\* the account of that session; a session becomes logged in only by a
\* successful authenticate_user and logged out only with user_info cleared
C14_Step ==
    /\ C14_PageRun => /\ logged_in[last'.session]
                      /\ C14_Identity(last'.session)
                      /\ "user_id" \in DOMAIN last' =>
                            last'.user_id = user_info[last'.session].id
    /\ predictions' # predictions =>
          /\ C14_PageRun /\ last'.handler = "prediction"
          /\ predictions'[Len(predictions')].user_id = user_info[last'.session].id
    /\ \A s \in Sessions :
          /\ (~ logged_in[s] /\ logged_in'[s]) =>
                /\ Completed("authenticate_user")
                /\ last'.session = s /\ last'.ret = <<TRUE, user_info'[s]>>
          /\ (logged_in[s] /\ ~ logged_in'[s]) => user_info'[s] = None

\* C14: in every reachable state logged_in is true if and only if user_info
\* holds the identity of an account of the users table; the prediction,
\* history and analytics pages (and with them save_prediction and
\* get_user_predictions) run only while logged_in is true, and after Logout
\* none of them runs before a later successful login.
C14_SessionGuard == [] C14_LoggedInIffIdentity /\ [][C14_Step]_vars

\* a prediction has been saved and every session has logged out since
C14_Witness ==
    /\ Len(predictions) >= 1
    /\ \A s \in Sessions : ~ logged_in[s] /\ user_info[s] = None /\ pc[s] = "idle"
    /\ last = None

\* the history page has run in a logged-in session of the demo account
C14_WitnessHistory ==
    /\ last # None /\ last.handler = "history"
    /\ logged_in[last.session]
    /\ user_info[last.session].username = "demo"
    /\ Len(last.df) >= 1

====
